---- MODULE Spec2Model ----
(***************************************************************************)
(* Model of torch_explain/nn/logic.py: the ConceptAwareness, Logic,        *)
(* Attention and Sequential layers.  Tensors are modelled by value: a      *)
(* shape and one exact rational per index.  Every forward operator is a    *)
(* line-by-line translation of the Python method; an operation that raises *)
(* in Python (a broadcast or matmul shape mismatch, an addition of None, a *)
(* missing positional argument) yields raised = TRUE together with the     *)
(* object state reached at the raising line.                               *)
(***************************************************************************)
EXTENDS Integers, Sequences, FiniteSets, TLC

(***************************************************************************)
(* Bounds of the model.                                                    *)
(***************************************************************************)
MaxFeatures == 2
MaxClasses == 2
MaxBatch == 2
NumSeeds == 2
MaxCalls == 2
MaxLayers == 2
MaxPasses == 1

(***************************************************************************)
(* Exact rationals <<n, d>> with d > 0 and gcd(n, d) = 1.                  *)
(***************************************************************************)
Abs(n) == IF n < 0 THEN -n ELSE n

RECURSIVE GCD(_, _)
GCD(a, b) == IF b = 0 THEN a ELSE GCD(b, a % b)

Rat(n, d) ==
    LET s == IF d < 0 THEN -1 ELSE 1
        g == GCD(Abs(n), Abs(d))
    IN  <<(s * n) \div g, (s * d) \div g>>

RInt(n) == <<n, 1>>
RZero == RInt(0)
ROne == RInt(1)

RAdd(a, b) ==
    IF a[2] = 1 /\ b[2] = 1 THEN <<a[1] + b[1], 1>>
    ELSE LET g == GCD(a[2], b[2])
         IN  Rat(a[1] * (b[2] \div g) + b[1] * (a[2] \div g), (a[2] \div g) * b[2])

RNeg(a) == <<-a[1], a[2]>>
RSub(a, b) == RAdd(a, RNeg(b))

RMul(a, b) ==
    IF a[2] = 1 /\ b[2] = 1 THEN <<a[1] * b[1], 1>>
    ELSE LET g1 == GCD(Abs(a[1]), b[2])
             g2 == GCD(Abs(b[1]), a[2])
         IN  Rat((a[1] \div g1) * (b[1] \div g2), (a[2] \div g2) * (b[2] \div g1))

RInv(a) == IF a[1] < 0 THEN <<-a[2], -a[1]>> ELSE <<a[2], a[1]>>
RDiv(a, b) == RMul(a, RInv(b))

RLe(a, b) == a[1] * b[2] <= b[1] * a[2]
RLt(a, b) == a[1] * b[2] < b[1] * a[2]
RMax(a, b) == IF RLe(a, b) THEN b ELSE a

RECURSIVE RSum(_)
RSum(s) == IF s = <<>> THEN RZero ELSE RAdd(Head(s), RSum(Tail(s)))

RECURSIVE RMaxSeq(_)
RMaxSeq(s) == IF Len(s) = 1 THEN s[1] ELSE RMax(s[1], RMaxSeq(Tail(s)))

\* floor of a rational
RFloor(a) == a[1] \div a[2]

\* square root of a rational: exact when numerator and denominator are squares
\* (they are for every weight the model constructs), rounded down otherwise
ISqrt(n) == CHOOSE r \in 0..n : r * r <= n /\ (r + 1) * (r + 1) > n
RSqrt(a) == <<ISqrt(a[1]), ISqrt(a[2])>>

\* exp, as the base-2 exponential interpolated linearly between integers:
\* exact at the integers, positive and strictly increasing everywhere.
RExp(a) ==
    LET f == RFloor(a)
        frac == RSub(a, RInt(f))
        p == IF f >= 0 THEN RInt(2 ^ f) ELSE <<1, 2 ^ (-f)>>
    IN  IF a[2] = 1 THEN p ELSE RMul(p, RAdd(ROne, frac))

(***************************************************************************)
(* Tensors: a shape and a value per index (indices are 1-based tuples).    *)
(* None is Python's None.                                                  *)
(***************************************************************************)
None == [isNone |-> TRUE, shape |-> <<>>, v |-> <<>>]

RECURSIVE Idx(_)
Idx(shape) ==
    IF shape = <<>> THEN {<<>>}
    ELSE {<<k>> \o r : k \in 1..Head(shape), r \in Idx(Tail(shape))}

\* (f @@ <<>> is f, evaluated once at every index instead of at every use)
Ten(shape, F(_)) ==
    [isNone |-> FALSE, shape |-> shape, v |-> [ix \in Idx(shape) |-> F(ix)] @@ <<>>]

Rank(t) == Len(t.shape)

RECURSIVE Prod(_)
Prod(s) == IF s = <<>> THEN 1 ELSE Head(s) * Prod(Tail(s))

Numel(t) == Prod(t.shape)

Max2(a, b) == IF a >= b THEN a ELSE b

\* broadcasting: shapes are aligned on the right, a dimension of size 1 stretches
PadL(s, n) == [k \in 1..n |-> IF k <= n - Len(s) THEN 1 ELSE s[k - (n - Len(s))]]

CanBroadcast(s1, s2) ==
    LET n == Max2(Len(s1), Len(s2))
        p1 == PadL(s1, n)
        p2 == PadL(s2, n)
    IN  \A k \in 1..n : p1[k] = p2[k] \/ p1[k] = 1 \/ p2[k] = 1

BShape(s1, s2) ==
    LET n == Max2(Len(s1), Len(s2))
        p1 == PadL(s1, n)
        p2 == PadL(s2, n)
    IN  [k \in 1..n |-> IF p1[k] = 1 THEN p2[k] ELSE p1[k]]

\* the index of a tensor of shape s that the broadcast index ix reads
BIx(ix, s) ==
    [k \in 1..Len(s) |-> IF s[k] = 1 THEN 1 ELSE ix[k + (Len(ix) - Len(s))]]

TMul(a, b) ==
    LET s == BShape(a.shape, b.shape)
        F(ix) == RMul(a.v[BIx(ix, a.shape)], b.v[BIx(ix, b.shape)])
    IN  Ten(s, F)

TAdd(a, b) ==
    LET s == BShape(a.shape, b.shape)
        F(ix) == RAdd(a.v[BIx(ix, a.shape)], b.v[BIx(ix, b.shape)])
    IN  Ten(s, F)

TDiv(a, b) ==
    LET s == BShape(a.shape, b.shape)
        F(ix) == RDiv(a.v[BIx(ix, a.shape)], b.v[BIx(ix, b.shape)])
    IN  Ten(s, F)

\* a dimension given the Python way (0-based, negative from the end), 1-based
Dim(d, rank) == IF d < 0 THEN rank + d + 1 ELSE d + 1

InsertAt(s, p, x) == SubSeq(s, 1, p - 1) \o <<x>> \o SubSeq(s, p, Len(s))
RemoveAt(s, p) == SubSeq(s, 1, p - 1) \o SubSeq(s, p + 1, Len(s))

\* torch.unsqueeze(t, d)
Unsqueeze(t, d) ==
    LET p == Dim(d, Rank(t) + 1)
        F(ix) == t.v[RemoveAt(ix, p)]
    IN  Ten(InsertAt(t.shape, p, 1), F)

\* torch.permute(t, dims), dims 0-based
Permute(t, dims) ==
    LET s == [k \in 1..Rank(t) |-> t.shape[dims[k] + 1]]
        F(ix) == t.v[[j \in 1..Rank(t) |-> ix[CHOOSE k \in 1..Rank(t) : dims[k] + 1 = j]]]
    IN  Ten(s, F)

\* Tensor.t() of a 2-D tensor
Transpose(t) == Permute(t, <<1, 0>>)

\* torch.matmul(a, b) for operands of rank >= 2: the leading dimensions broadcast
CanMatmul(a, b) ==
    /\ Rank(a) >= 2 /\ Rank(b) >= 2
    /\ a.shape[Rank(a)] = b.shape[Rank(b) - 1]
    /\ CanBroadcast(SubSeq(a.shape, 1, Rank(a) - 2), SubSeq(b.shape, 1, Rank(b) - 2))

Matmul(a, b) ==
    LET ba == SubSeq(a.shape, 1, Rank(a) - 2)
        bb == SubSeq(b.shape, 1, Rank(b) - 2)
        bs == BShape(ba, bb)
        n == a.shape[Rank(a) - 1]
        k == a.shape[Rank(a)]
        m == b.shape[Rank(b)]
        r == Len(bs)
        F(ix) ==
            LET bix == SubSeq(ix, 1, r)
            IN  RSum([j \in 1..k |->
                        RMul(a.v[BIx(bix, ba) \o <<ix[r + 1], j>>],
                             b.v[BIx(bix, bb) \o <<j, ix[r + 2]>>])])
    IN  Ten(bs \o <<n, m>>, F)

\* the entries of t along dimension p (1-based) at the reduced index ix
Fiber(t, p, ix) == [j \in 1..t.shape[p] |-> t.v[InsertAt(ix, p, j)]]

\* Tensor.norm(dim=d): the 2-norm along d
NormDim(t, d) ==
    LET p == Dim(d, Rank(t))
        F(ix) == LET f == Fiber(t, p, ix)
                 IN  RSqrt(RSum([j \in 1..Len(f) |-> RMul(f[j], f[j])]))
    IN  Ten(RemoveAt(t.shape, p), F)

\* Tensor.max(dim=d)[0]
MaxDim(t, d) ==
    LET p == Dim(d, Rank(t))
        F(ix) == RMaxSeq(Fiber(t, p, ix))
    IN  Ten(RemoveAt(t.shape, p), F)

\* Tensor.mean(dim=d)
MeanDim(t, d) ==
    LET p == Dim(d, Rank(t))
        F(ix) == RDiv(RSum(Fiber(t, p, ix)), RInt(t.shape[p]))
    IN  Ten(RemoveAt(t.shape, p), F)

\* Tensor.sum(dim=d)
SumDim(t, d) ==
    LET p == Dim(d, Rank(t))
        F(ix) == RSum(Fiber(t, p, ix))
    IN  Ten(RemoveAt(t.shape, p), F)

\* torch.softmax(t, dim=d): exp(x - max) / sum(exp(x - max)) along d
Softmax(t, d) ==
    LET p == Dim(d, Rank(t))
        m == MaxDim(t, d)
        E(ix) == RExp(RSub(t.v[ix], m.v[RemoveAt(ix, p)]))
        e == Ten(t.shape, E)
        z == SumDim(e, d)
        F(ix) == RDiv(e.v[ix], z.v[RemoveAt(ix, p)])
    IN  Ten(t.shape, F)

\* row-major position (0-based) of an index, and back
RECURSIVE Flat(_, _)
Flat(ix, shape) ==
    IF ix = <<>> THEN 0
    ELSE (Head(ix) - 1) * Prod(Tail(shape)) + Flat(Tail(ix), Tail(shape))

RECURSIVE Unflat(_, _)
Unflat(n, shape) ==
    IF shape = <<>> THEN <<>>
    ELSE <<(n \div Prod(Tail(shape))) + 1>> \o Unflat(n % Prod(Tail(shape)), Tail(shape))

\* Tensor.view(n, -1) of a contiguous tensor
View2(t, n) ==
    LET s == <<n, Numel(t) \div n>>
        F(ix) == t.v[Unflat(Flat(ix, s), t.shape)]
    IN  Ten(s, F)

\* Tensor.squeeze(): every dimension of size 1 is removed
RECURSIVE SqueezeShape(_)
SqueezeShape(s) ==
    IF s = <<>> THEN <<>>
    ELSE IF Head(s) = 1 THEN SqueezeShape(Tail(s))
    ELSE <<Head(s)>> \o SqueezeShape(Tail(s))

Reshape(t, s) ==
    LET F(ix) == t.v[Unflat(Flat(ix, s), t.shape)]
    IN  Ten(s, F)

Squeeze(t) == Reshape(t, SqueezeShape(t.shape))

\* Tensor.squeeze(-1): the last dimension is removed when its size is 1
SqueezeLast(t) ==
    IF Rank(t) > 0 /\ t.shape[Rank(t)] = 1
    THEN Reshape(t, SubSeq(t.shape, 1, Rank(t) - 1))
    ELSE t

(***************************************************************************)
(* Parameters after construction.  reset_parameters draws them at random;  *)
(* the model draws them from a bounded family indexed by a seed.  The      *)
(* ConceptAwareness weight columns (along the output axis) have at most    *)
(* two non-zero entries, (3, -4), 1 or -2, so that every norm is exact.    *)
(***************************************************************************)
d_key_query == 5
d_value == 1

CAWeightEntry(seed, out, c, o, i) ==
    LET k == (seed + c + i) % 3
        p == ((seed + i) % out) + 1
        q == (p % out) + 1
    IN  IF k = 0 THEN (IF o = p THEN 3 ELSE IF o = q THEN -4 ELSE 0)
        ELSE IF k = 1 THEN (IF o = p THEN 1 ELSE 0)
        ELSE (IF o = q THEN -2 ELSE 0)

CAWeight(seed, n_classes, out, in) ==
    Ten(<<n_classes, out, in>>, LAMBDA ix : RInt(CAWeightEntry(seed, out, ix[1], ix[2], ix[3])))

SmallInt(k) == (k % 3) - 1

CABias(seed, n_classes, out) ==
    Ten(<<n_classes, 1, out>>, LAMBDA ix : RInt(SmallInt(seed + ix[1] + ix[3])))

LinearWeight(seed, out, in) ==
    Ten(<<out, in>>, LAMBDA ix : RInt(SmallInt(seed + 2 * ix[1] + ix[2])))

LinearBias(seed, out) ==
    Ten(<<out>>, LAMBDA ix : RInt((seed + ix[1]) % 2))

\* ConceptAwareness.__init__
ConceptAwareness(in_features, out_features, n_classes, shrink, top, bias, seed) ==
    [type |-> "ConceptAwareness", in_features |-> in_features,
     out_features |-> out_features, n_classes |-> n_classes,
     shrink |-> shrink, top |-> top, first |-> FALSE, activation |-> "identity_bool",
     weight |-> CAWeight(seed, n_classes, out_features, in_features),
     bias |-> IF bias THEN CABias(seed, n_classes, out_features) ELSE None,
     w_key |-> None, w_query |-> None, w_value |-> None,
     concepts |-> None, gamma |-> None, alpha |-> None, beta |-> None,
     attn_scores_softmax |-> None]

\* Logic.__init__
Logic(in_features, out_features, activation, bias, top, seed) ==
    [type |-> "Logic", in_features |-> in_features,
     out_features |-> out_features, n_classes |-> 0,
     shrink |-> FALSE, top |-> top, first |-> FALSE, activation |-> activation,
     weight |-> LinearWeight(seed, out_features, in_features),
     bias |-> IF bias THEN LinearBias(seed, out_features) ELSE None,
     w_key |-> None, w_query |-> None, w_value |-> None,
     concepts |-> None, gamma |-> None, alpha |-> None, beta |-> None,
     attn_scores_softmax |-> None]

\* Attention.__init__
Attention(in_features, out_features, n_classes, first, seed) ==
    [type |-> "Attention", in_features |-> in_features,
     out_features |-> out_features, n_classes |-> n_classes,
     shrink |-> FALSE, top |-> FALSE, first |-> first, activation |-> "",
     weight |-> Ten(<<n_classes, 1, in_features, out_features>>,
                    LAMBDA ix : RInt(SmallInt(seed + ix[1] + ix[3] + 2 * ix[4]))),
     bias |-> Ten(<<n_classes, 1, out_features>>,
                  LAMBDA ix : RInt(SmallInt(seed + ix[1] + ix[3]))),
     w_key |-> Ten(<<n_classes, 1, 1, d_key_query>>,
                   LAMBDA ix : RInt(SmallInt(seed + ix[1] + ix[4]))),
     w_query |-> Ten(<<n_classes, 1, d_key_query>>,
                     LAMBDA ix : RInt((seed + 2 * ix[1] + ix[3]) % 2)),
     w_value |-> Ten(<<n_classes, 1, d_value>>,
                     LAMBDA ix : RInt(1 + ((seed + ix[1]) % 2))),
     concepts |-> None, gamma |-> None, alpha |-> None, beta |-> None,
     attn_scores_softmax |-> None]

\* the fields __init__ sets and forward never assigns
Params(l) ==
    [type |-> l.type, in_features |-> l.in_features, out_features |-> l.out_features,
     n_classes |-> l.n_classes, shrink |-> l.shrink, top |-> l.top, first |-> l.first,
     activation |-> l.activation, weight |-> l.weight, bias |-> l.bias,
     w_key |-> l.w_key, w_query |-> l.w_query, w_value |-> l.w_value]

\* the fields forward records
Recorded(l) ==
    [concepts |-> l.concepts, gamma |-> l.gamma, alpha |-> l.alpha, beta |-> l.beta,
     attn_scores_softmax |-> l.attn_scores_softmax]

(***************************************************************************)
(* The outcome of one forward call: the object afterwards, and either the  *)
(* returned tensor or raised = TRUE.  trace lists the sub-modules and      *)
(* functions the call invoked, in order.                                   *)
(***************************************************************************)
Return(layer, out, trace) == [layer |-> layer, out |-> out, raised |-> FALSE, trace |-> trace]
Raise(layer, trace) == [layer |-> layer, out |-> None, raised |-> TRUE, trace |-> trace]

(***************************************************************************)
(* Conceptizator (concepts.py): records its input as concepts and returns  *)
(* the input under the selected nonlinearity.                              *)
(***************************************************************************)
Activations == {"identity", "identity_bool", "relu"}

Activation(mode, x) ==
    IF mode = "relu"
    THEN Ten(x.shape, LAMBDA ix : RMax(RZero, x.v[ix]))
    ELSE x

\* Conceptizator.forward: the object afterwards and the value returned
Conceptizator(self, x) ==
    [layer |-> [self EXCEPT !.concepts = x], out |-> Activation(self.activation, x)]

(***************************************************************************)
(* ConceptAwareness.forward                                                *)
(***************************************************************************)
\* input.unsqueeze(0) for a 2-D input
CA_promote(input) == IF Rank(input) = 2 THEN Unsqueeze(input, 0) ELSE input

\* (variants: the snapshot is kept from the first call; no snapshot is taken)
CA_record_first(self, input) ==
    IF self.concepts.isNone THEN [self EXCEPT !.concepts = input] ELSE self

CA_record_skipped(self, input) == self

\* self.conceptizator.concepts = input
CA_record(self, input) == [self EXCEPT !.concepts = input]

\* (variant: the norm is taken across the input features)
CA_gamma_overInputs(self) == NormDim(self.weight, 2)

\* self.gamma = self.weight.norm(dim=1)
CA_gamma(self) == NormDim(self.weight, 1)

\* self.alpha = torch.softmax(self.gamma, dim=1)
CA_alpha(gamma) == Softmax(gamma, 1)

\* self.beta = self.alpha / self.alpha.max(dim=1)[0].unsqueeze(1)
CA_beta(alpha) == TDiv(alpha, Unsqueeze(MaxDim(alpha, 1), 1))

\* x.matmul(self.weight.permute(0, 2, 1)) + self.bias: the operation raises on a
\* shape mismatch in the product and on the addition of a None bias
CA_canProject(self, x) ==
    LET ws == self.weight.shape
    IN  /\ CanMatmul(x, [isNone |-> FALSE, shape |-> <<ws[1], ws[3], ws[2]>>])
        /\ ~self.bias.isNone

CA_project(self, x) == TAdd(Matmul(x, Permute(self.weight, <<0, 2, 1>>)), self.bias)

\* (variant: the view is not transposed)
CA_view_untransposed(self, x) == View2(x, self.n_classes)

\* x.view(self.n_classes, -1).t()
CA_canView(self, x) == Numel(x) % self.n_classes = 0
CA_view(self, x) == Transpose(View2(x, self.n_classes))

\* lines 62-65: the top reshape, its snapshot, and the return
CA_finish(self, x) ==
    IF self.top
    THEN IF CA_canView(self, x)
         THEN Return([self EXCEPT !.concepts = CA_view(self, x)], CA_view(self, x), <<>>)
         ELSE Raise(self, <<>>)
    ELSE Return(self, x, <<>>)

\* lines 59 and 61 followed by lines 62-65
CA_linear(self, x) ==
    IF CA_canProject(self, x) THEN CA_finish(self, CA_project(self, x)) ELSE Raise(self, <<>>)

\* lines 55-58: the shrink gate, recorded on the object before the input is gated
CA_shrink(self, input) ==
    LET gamma == CA_gamma(self)
        alpha == CA_alpha(gamma)
        beta == CA_beta(alpha)
        s == [self EXCEPT !.gamma = gamma, !.alpha = alpha, !.beta = beta]
        gate == Unsqueeze(beta, 1)
    IN  IF CanBroadcast(input.shape, gate.shape)
        THEN CA_linear(s, TMul(input, gate))
        ELSE Raise(s, <<>>)

CA_forward(self, input) ==
    LET in3 == CA_promote(input)
        s == CA_record(self, in3)
    IN  IF self.shrink THEN CA_shrink(s, in3) ELSE CA_linear(s, in3)

(***************************************************************************)
(* Logic.forward                                                           *)
(***************************************************************************)
\* torch.nn.functional.linear(x, weight, bias): x @ weight.T + bias
CanLinear(x, weight) == Rank(x) >= 1 /\ x.shape[Rank(x)] = weight.shape[2]

Linear(x, weight, bias) ==
    LET x2 == IF Rank(x) = 1 THEN Unsqueeze(x, 0) ELSE x
        mm == Matmul(x2, Transpose(weight))
        y == IF Rank(x) = 1 THEN Reshape(mm, <<weight.shape[1]>>) ELSE mm
    IN  IF bias.isNone THEN y ELSE TAdd(y, bias)

\* (variant: the projection is applied whatever top is)
Logic_project_always(self, x) ==
    IF CanLinear(x, self.weight)
    THEN Return(self, Linear(x, self.weight, self.bias), <<"conceptizator", "linear">>)
    ELSE Raise(self, <<"conceptizator", "linear">>)

\* lines 88-90, after the activation
Logic_project(self, x) ==
    IF ~self.top
    THEN IF CanLinear(x, self.weight)
         THEN Return(self, Linear(x, self.weight, self.bias), <<"conceptizator", "linear">>)
         ELSE Raise(self, <<"conceptizator", "linear">>)
    ELSE Return(self, x, <<"conceptizator">>)

Logic_forward(self, input) ==
    LET c == Conceptizator(self, input)
    IN  Logic_project(c.layer, c.out)

(***************************************************************************)
(* Attention.forward                                                       *)
(***************************************************************************)
\* line 137: attn_scores.mean(dim=1).permute(0, 2, 1)
Attn_average(attn_scores) == Permute(MeanDim(attn_scores, 1), <<0, 2, 1>>)

\* (variant: the softmax runs across the class axis)
Attn_softmax_classAxis(attn_scores_avg) == Softmax(attn_scores_avg, 0)

\* line 138: torch.softmax(attn_scores_avg, dim=-1)
Attn_softmax(attn_scores_avg) == Softmax(attn_scores_avg, -1)

\* line 139: attn_scores_softmax / attn_scores_softmax.max(dim=2)[0].unsqueeze(-1)
Attn_rescale(sm) == TDiv(sm, Unsqueeze(MaxDim(sm, 2), -1))

\* (variant: the rescaled scores are stored)
Attn_store_rescaled(self, sm) == [self EXCEPT !.attn_scores_softmax = Attn_rescale(sm)]

\* what line 138 stores on the object
Attn_store(self, sm) == [self EXCEPT !.attn_scores_softmax = sm]

\* lines 140-145: the output projection
Attn_output(self, weighted_values) ==
    LET wv == Unsqueeze(weighted_values, -2)
    IN  IF ~CanMatmul(wv, self.weight) THEN Raise(self, <<"softmax">>)
        ELSE LET mm == Matmul(wv, self.weight)
                 sq == IF self.out_features > 1 THEN Squeeze(mm) ELSE SqueezeLast(mm)
             IN  IF CanBroadcast(sq.shape, self.bias.shape)
                 THEN Return(self, TAdd(sq, self.bias), <<"softmax">>)
                 ELSE Raise(self, <<"softmax">>)

\* lines 136-139, from the keys, queries and values
Attn_scores(self, keys, querys, values) ==
    LET q == Unsqueeze(querys, -1)
    IN  IF ~CanMatmul(keys, q) THEN Raise(self, <<>>)
        ELSE LET attn_scores == Matmul(keys, q)
             IN  IF Rank(attn_scores) # 4 THEN Raise(self, <<>>)
                 ELSE LET sm == Attn_softmax(Attn_average(attn_scores))
                          s == Attn_store(self, sm)
                          gate == Attn_rescale(sm)
                      IN  IF CanBroadcast(values.shape, gate.shape)
                          THEN Attn_output(s, TMul(values, gate))
                          ELSE Raise(s, <<"softmax">>)

Attention_forward(self, x, y) ==
    LET x1 == IF self.first THEN Unsqueeze(x, 0) ELSE x
    IN  IF Rank(y) > 2 THEN Raise(self, <<>>)
        ELSE LET y1 == IF Rank(y) = 2 THEN Transpose(y) ELSE y
                 xk == Unsqueeze(x1, -1)
                 yq == Unsqueeze(y1, -1)
             IN  IF ~CanMatmul(xk, self.w_key) THEN Raise(self, <<>>)
                 ELSE IF ~CanMatmul(yq, self.w_query) THEN Raise(self, <<>>)
                 ELSE IF ~CanBroadcast(x1.shape, self.w_value.shape) THEN Raise(self, <<>>)
                 ELSE Attn_scores(self, Matmul(xk, self.w_key), Matmul(yq, self.w_query),
                                  TMul(x1, self.w_value))

(***************************************************************************)
(* Sequential.forward                                                      *)
(***************************************************************************)
\* module(x): torch.nn.Module.__call__ with one positional argument.  For an
\* Attention module the argument y of forward is missing: Python raises TypeError
\* before the body of forward runs.
Module_call(module, x) ==
    IF module.type = "ConceptAwareness" THEN CA_forward(module, x)
    ELSE IF module.type = "Logic" THEN Logic_forward(module, x)
    ELSE Raise(module, <<>>)

\* (variant: the train flag is inverted)
Seq_withLabel_inverted(module, train) == module.type = "Attention" /\ ~train

\* line 102: isinstance(module, Attention) and train
Seq_withLabel(module, train) == module.type = "Attention" /\ train

\* lines 102-105: one iteration of the loop
Seq_call(module, x, y, train) ==
    IF Seq_withLabel(module, train)
    THEN [args |-> "xy", r |-> Attention_forward(module, x, y)]
    ELSE [args |-> "x", r |-> Module_call(module, x)]

(***************************************************************************)
(* The state machine.                                                      *)
(*   layers  the modules, in container order                               *)
(*   pc      "idle", or "running" inside Sequential.forward                *)
(*   cur     the frame of the running Sequential.forward: x, y, train and  *)
(*           the position i of the next module                             *)
(*   log     the module calls made by the most recent top-level call       *)
(*   res     the most recent top-level call: its arguments and outcome     *)
(*   pre     the layers as they were when Sequential.forward was entered   *)
(*   ncalls  the number of top-level calls made                            *)
(***************************************************************************)
VARIABLES layers, pc, cur, log, res, pre, ncalls

vars == <<layers, pc, cur, log, res, pre, ncalls>>

NoFrame == [x |-> None, y |-> None, train |-> FALSE, i |-> 0]
NoRes == [op |-> "none", status |-> "none", value |-> None, x |-> None, y |-> None,
          train |-> FALSE]

LogEntry(k, args, x, y, r) ==
    [layer |-> k, args |-> args, x |-> x, y |-> y, out |-> r.out, raised |-> r.raised,
     trace |-> r.trace]

Outcome(op, r, x, y, train) ==
    [op |-> op, status |-> IF r.raised THEN "raise" ELSE "return", value |-> r.out,
     x |-> x, y |-> y, train |-> train]

\* inputs: data tensors with entries in {-1, 0, 1}, one-hot label tensors
XData(shape, seed) == Ten(shape, LAMBDA ix : RInt(SmallInt(seed + Flat(ix, shape))))

YData(batch, n_classes, seed) ==
    Ten(<<batch, n_classes>>,
        LAMBDA ix : RInt(IF ix[2] = ((seed + ix[1]) % n_classes) + 1 THEN 1 ELSE 0))

Shapes2 == {<<b, f>> : b \in 1..MaxBatch, f \in 1..MaxFeatures}
Shapes3 == {<<l, b, f>> : l \in 1..MaxClasses, b \in 1..MaxBatch, f \in 1..MaxFeatures}

XInputs == {XData(s, sd) : s \in Shapes2 \cup Shapes3, sd \in 1..NumSeeds}

InitRest ==
    /\ pc = "idle"
    /\ cur = NoFrame
    /\ log = <<>>
    /\ res = NoRes
    /\ pre = <<>>
    /\ ncalls = 0

\* a direct call of layers[1].forward
Forward(op, r, x, y) ==
    /\ layers' = [layers EXCEPT ![1] = r.layer]
    /\ log' = <<LogEntry(1, IF y.isNone THEN "x" ELSE "xy", x, y, r)>>
    /\ res' = Outcome(op, r, x, y, FALSE)
    /\ ncalls' = ncalls + 1
    /\ UNCHANGED <<pc, cur, pre>>

ForwardCA(input) ==
    /\ pc = "idle" /\ ncalls < MaxCalls
    /\ layers[1].type = "ConceptAwareness"
    /\ \E r \in {CA_forward(layers[1], input)} : Forward("ConceptAwareness", r, input, None)

ForwardLogic(input) ==
    /\ pc = "idle" /\ ncalls < MaxCalls
    /\ layers[1].type = "Logic"
    /\ \E r \in {Logic_forward(layers[1], input)} : Forward("Logic", r, input, None)

ForwardAttention(x, y) ==
    /\ pc = "idle" /\ ncalls < MaxCalls
    /\ layers[1].type = "Attention"
    /\ \E r \in {Attention_forward(layers[1], x, y)} : Forward("Attention", r, x, y)

\* Sequential.forward, line 100: x, y = input
SeqBegin(x, y, train) ==
    /\ pc = "idle" /\ ncalls < MaxPasses
    /\ pc' = "running"
    /\ cur' = [x |-> x, y |-> y, train |-> train, i |-> 1]
    /\ log' = <<>>
    /\ res' = [op |-> "Sequential", status |-> "running", value |-> None, x |-> x,
               y |-> y, train |-> train]
    /\ pre' = layers
    /\ ncalls' = ncalls + 1
    /\ UNCHANGED layers

\* lines 101-105: the next module is called; an exception leaves forward
SeqStep ==
    /\ pc = "running" /\ cur.i <= Len(layers)
    /\ \E c \in {Seq_call(layers[cur.i], cur.x, cur.y, cur.train)} :
           /\ layers' = [layers EXCEPT ![cur.i] = c.r.layer]
           /\ log' = Append(log, LogEntry(cur.i, c.args, cur.x,
                                          IF c.args = "xy" THEN cur.y ELSE None, c.r))
           /\ IF c.r.raised
              THEN /\ pc' = "idle"
                   /\ cur' = NoFrame
                   /\ res' = [res EXCEPT !.status = "raise"]
              ELSE /\ pc' = "running"
                   /\ cur' = [cur EXCEPT !.x = c.r.out, !.i = cur.i + 1]
                   /\ res' = res
    /\ UNCHANGED <<pre, ncalls>>

\* line 106: return x
SeqReturn ==
    /\ pc = "running" /\ cur.i > Len(layers)
    /\ pc' = "idle"
    /\ cur' = NoFrame
    /\ res' = [res EXCEPT !.status = "return", !.value = cur.x]
    /\ UNCHANGED <<layers, log, pre, ncalls>>

(***************************************************************************)
(* Specifications: one per class under test.                               *)
(***************************************************************************)
Dims == 1..MaxFeatures
Classes == 1..MaxClasses
Seeds == 1..NumSeeds

InitCA ==
    /\ \E i \in Dims, o \in Dims, n \in Classes, sh \in BOOLEAN, tp \in BOOLEAN,
          b \in BOOLEAN, sd \in Seeds :
          layers = <<ConceptAwareness(i, o, n, sh, tp, b, sd)>>
    /\ InitRest

NextCA == \E input \in XInputs : ForwardCA(input)

SpecCA == InitCA /\ [][NextCA]_vars

InitLogic ==
    /\ \E i \in Dims, o \in Dims, a \in Activations, b \in BOOLEAN, tp \in BOOLEAN,
          sd \in Seeds :
          layers = <<Logic(i, o, a, b, tp, sd)>>
    /\ InitRest

NextLogic == \E input \in XInputs : ForwardLogic(input)

SpecLogic == InitLogic /\ [][NextLogic]_vars

InitAttention ==
    /\ \E i \in Dims, o \in Dims, n \in Classes, f \in BOOLEAN, sd \in Seeds :
          layers = <<Attention(i, o, n, f, sd)>>
    /\ InitRest

\* the labels of the samples of x, for every number of classes
Labels(x) == {YData(x.shape[Rank(x) - 1], n, 1) : n \in 1..MaxClasses}

AttnInputs == {XData(s, 1) : s \in Shapes2 \cup Shapes3}

NextAttention == \E x \in AttnInputs : \E y \in Labels(x) : ForwardAttention(x, y)

SpecAttention == InitAttention /\ [][NextAttention]_vars

\* the layer stacks of the Sequential specification: layer j maps dims[j]
\* features to dims[j + 1] features
Kinds == {"CA", "CAshrink", "CAtop", "Logic", "LogicTop", "Attention"}

\* an Attention layer is constructed with first = TRUE exactly at the head
SeqLayer(kind, j, i, o, n) ==
    IF kind = "CA" THEN ConceptAwareness(i, o, n, FALSE, FALSE, TRUE, 1)
    ELSE IF kind = "CAshrink" THEN ConceptAwareness(i, o, n, TRUE, FALSE, TRUE, 1)
    ELSE IF kind = "CAtop" THEN ConceptAwareness(i, o, n, FALSE, TRUE, TRUE, 1)
    ELSE IF kind = "Logic" THEN Logic(i, o, "identity_bool", TRUE, FALSE, 1)
    ELSE IF kind = "LogicTop" THEN Logic(i, o, "identity_bool", TRUE, TRUE, 1)
    ELSE Attention(i, o, n, j = 1, 1)

InitSeq ==
    /\ \E len \in 1..MaxLayers :
         \E kinds \in [1..len -> Kinds], dims \in [1..(len + 1) -> Dims], n \in Classes :
            layers = [j \in 1..len |-> SeqLayer(kinds[j], j, dims[j], dims[j + 1], n)]
    /\ InitRest

SeqInputs == {XData(s, 1) : s \in Shapes2}

NextSeq ==
    \/ \E x \in SeqInputs, train \in BOOLEAN : \E y \in Labels(x) : SeqBegin(x, y, train)
    \/ SeqStep
    \/ SeqReturn

SpecSeq == InitSeq /\ [][NextSeq]_vars

(***************************************************************************)
(* Properties.                                                             *)
(***************************************************************************)
Batch(x) == x.shape[Rank(x) - 1]
Features(x) == x.shape[Rank(x)]

Returned(op) == res.op = op /\ res.status = "return"
Raised(op) == res.op = op /\ res.status = "raise"

\* ---- Sequential -----------------------------------------------------------

\* C1 (as claimed): a Sequential.forward with train = False never calls an
\* Attention layer, neither with (x, y) nor with x alone, and never raises at one.
C1_AttentionSkipped ==
    (res.op = "Sequential" /\ ~res.train) =>
        \A k \in 1..Len(log) : layers[log[k].layer].type # "Attention"

\* C2: a Sequential.forward with train = True calls the layers in container
\* order, each once: the k-th call is to layer k, with (x, y) and the original y
\* if the layer is an Attention and with x alone otherwise, on the result of the
\* previous call; y is never reassigned; the value returned is the last result.
C2_TrainCallsInOrder ==
    (res.op = "Sequential" /\ res.train) =>
        /\ \A k \in 1..Len(log) :
              /\ log[k].layer = k
              /\ log[k].args = (IF layers[k].type = "Attention" THEN "xy" ELSE "x")
              /\ log[k].y = (IF layers[k].type = "Attention" THEN res.y ELSE None)
              /\ log[k].x = (IF k = 1 THEN res.x ELSE log[k - 1].out)
              /\ (k < Len(log) => ~log[k].raised)
        /\ (pc = "running" => /\ cur.y = res.y
                              /\ Len(log) = cur.i - 1
                              /\ cur.x = (IF cur.i = 1 THEN res.x ELSE log[cur.i - 1].out))
        /\ (res.status = "return" => /\ Len(log) = Len(layers)
                                     /\ ~log[Len(log)].raised
                                     /\ res.value = log[Len(log)].out)

\* a train = True pass over an Attention layer and another layer has returned
C2_Witness ==
    /\ res.op = "Sequential" /\ res.train /\ res.status = "return"
    /\ Len(layers) = 2
    /\ layers[2].type = "Attention" /\ layers[1].type = "ConceptAwareness"
    /\ log[2].args = "xy" /\ log[1].args = "x"

\* C8 (as claimed): a forward call that raises leaves the recorded state of every
\* layer exactly as it was before the call.
C8_RaiseLeavesRecordedState ==
    Raised("Sequential") => \A k \in 1..Len(layers) : Recorded(layers[k]) = Recorded(pre[k])

\* what the call log[k] of layer k recorded on the layer, if it got that far
SnapshotKept(k) ==
    LET l == layers[k]
        e == log[k]
    IN  IF l.type = "ConceptAwareness"
        THEN /\ l.concepts = (IF l.top /\ ~e.raised THEN e.out
                              ELSE IF Rank(e.x) = 2 THEN Unsqueeze(e.x, 0) ELSE e.x)
             /\ (l.shrink => ~l.gamma.isNone /\ ~l.alpha.isNone /\ ~l.beta.isNone)
        ELSE IF l.type = "Logic" THEN l.concepts = e.x
        ELSE (~e.raised => ~l.attn_scores_softmax.isNone)

\* C8 (amended): a Sequential.forward that raises returns no value, leaves the
\* parameters of every layer and the whole state of every layer after the failing
\* one as they were before the call, and leaves on the failing layer and on the
\* layers before it the snapshots their calls wrote.
C8_RaiseKeepsSnapshots ==
    Raised("Sequential") =>
        /\ res.value = None
        /\ Len(log) >= 1 /\ log[Len(log)].raised
        /\ \A k \in 1..Len(layers) : Params(layers[k]) = Params(pre[k])
        /\ \A k \in 1..Len(layers) : k > Len(log) => layers[k] = pre[k]
        /\ \A k \in 1..Len(log) : SnapshotKept(k)

\* the second layer raised after the first had recorded its input
C8_Witness ==
    /\ Raised("Sequential")
    /\ Len(log) = 2
    /\ Recorded(layers[1]) # Recorded(pre[1])
    /\ Recorded(layers[2]) # Recorded(pre[2])

\* ---- Logic ----------------------------------------------------------------

Front(q) == SubSeq(q, 1, Len(q) - 1)

\* entry ix of linear(a, weight, bias), written out: sum_j a[.., j] * W[o, j] + b[o]
LinearAt(a, weight, bias, ix) ==
    LET o == ix[Len(ix)]
        dot == RSum([j \in 1..weight.shape[2] |->
                        RMul(a.v[Front(ix) \o <<j>>], weight.v[<<o, j>>])])
    IN  IF bias.isNone THEN dot ELSE RAdd(dot, bias.v[<<o>>])

\* C3: Logic.forward returns activation(input) when top is true and
\* linear(activation(input), weight, bias) when top is false; the Conceptizator
\* is applied once, before any projection, and there is no projection when top.
C3_LogicForward ==
    Returned("Logic") =>
        LET l == layers[1]
            a == Activation(l.activation, res.x)
        IN  IF l.top
            THEN /\ res.value = a
                 /\ log[1].trace = <<"conceptizator">>
            ELSE /\ res.value.shape = Front(res.x.shape) \o <<l.out_features>>
                 /\ \A ix \in Idx(res.value.shape) :
                       res.value.v[ix] = LinearAt(a, l.weight, l.bias, ix)
                 /\ log[1].trace = <<"conceptizator", "linear">>

\* a projecting relu layer returned on an input with a negative entry, and the
\* projection of the raw input would have been another tensor
C3_Witness ==
    /\ Returned("Logic")
    /\ ~layers[1].top /\ layers[1].activation = "relu" /\ ~layers[1].bias.isNone
    /\ res.value # Linear(res.x, layers[1].weight, layers[1].bias)

\* ---- ConceptAwareness -----------------------------------------------------

\* the input is a (batch, in) or an (n_classes, batch, in) tensor
CA_ValidInput(l, x) ==
    /\ Features(x) = l.in_features
    /\ Rank(x) = 2 \/ (Rank(x) = 3 /\ x.shape[1] = l.n_classes)

\* entry (c, b, i) of the input as class c reads it
CA_InputAt(x, c, b, i) == IF Rank(x) = 2 THEN x.v[<<b, i>>] ELSE x.v[<<c, b, i>>]

\* output o of class c for sample b, written out:
\* sum_i x[c, b, i] * gate[c, i] * W[c, o, i] + bias[c, 1, o]
CA_ClassOutput(l, x, c, b, o) ==
    RAdd(RSum([i \in 1..l.in_features |->
                  RMul(RMul(CA_InputAt(x, c, b, i),
                            IF l.shrink THEN l.beta.v[<<c, i>>] ELSE ROne),
                       l.weight.v[<<c, o, i>>])]),
         l.bias.v[<<c, 1, o>>])

\* C4: on a (batch, in) or (n_classes, batch, in) tensor ConceptAwareness.forward
\* returns shape (n_classes, batch, out) when top is false, and when top is true
\* and out_features = 1 shape (batch, n_classes) whose entry [b, c] is class c's
\* output for sample b.
C4_OutputShape ==
    (res.op = "ConceptAwareness" /\ CA_ValidInput(layers[1], res.x)) =>
        LET l == layers[1]
        IN  /\ ~l.bias.isNone => res.status = "return"
            /\ (res.status = "return" /\ ~l.top) =>
                  res.value.shape = <<l.n_classes, Batch(res.x), l.out_features>>
            /\ (res.status = "return" /\ l.top /\ l.out_features = 1) =>
                  /\ res.value.shape = <<Batch(res.x), l.n_classes>>
                  /\ \A b \in 1..Batch(res.x), c \in 1..l.n_classes :
                        res.value.v[<<b, c>>] = CA_ClassOutput(l, res.x, c, b, 1)

\* a top layer with one output returned on a 3-D input whose batch size differs
\* from the number of classes
C4_Witness ==
    /\ Returned("ConceptAwareness")
    /\ layers[1].top /\ layers[1].out_features = 1
    /\ Rank(res.x) = 3 /\ CA_ValidInput(layers[1], res.x)
    /\ Batch(res.x) # layers[1].n_classes
    /\ res.value.shape = <<Batch(res.x), layers[1].n_classes>>

ShrinkDone == layers[1].type = "ConceptAwareness" /\ layers[1].shrink /\ ncalls >= 1

\* along its second axis: alpha is the softmax of gamma, and beta is alpha over
\* its maximum, so that the largest beta is 1 and every beta is in (0, 1]
GateOf(l, width) ==
    /\ l.alpha.shape = <<l.n_classes, width>>
    /\ l.beta.shape = <<l.n_classes, width>>
    /\ \A c \in 1..l.n_classes :
          LET g == [i \in 1..width |-> l.gamma.v[<<c, i>>]]
              a == [i \in 1..width |-> l.alpha.v[<<c, i>>]]
              b == [i \in 1..width |-> l.beta.v[<<c, i>>]]
              z == RSum([i \in 1..width |-> RExp(RSub(g[i], RMaxSeq(g)))])
          IN  /\ RSum(a) = ROne
              /\ \A i \in 1..width : RMul(a[i], z) = RExp(RSub(g[i], RMaxSeq(g)))
              /\ \A i \in 1..width : RMul(b[i], RMaxSeq(a)) = a[i]
              /\ \E i \in 1..width : b[i] = ROne
              /\ \A i \in 1..width : RLt(RZero, b[i]) /\ RLe(b[i], ROne)

\* C5 (as claimed): in shrink mode, after forward, gamma holds one norm per class
\* and per output feature, alpha is its softmax across output features and beta is
\* alpha over its per-class maximum: per class the largest beta is 1, all in (0, 1].
C5_GatePerOutputFeature ==
    ShrinkDone =>
        LET l == layers[1]
        IN  /\ l.gamma.shape = <<l.n_classes, l.out_features>>
            /\ GateOf(l, l.out_features)

\* C5 (amended): gamma holds one norm per class and per INPUT feature (the norm of
\* the weights of that input feature, taken across the output features); alpha is
\* its softmax across input features and beta is alpha over its per-class maximum:
\* per class the largest beta across input features is 1, all in (0, 1].
C5_GatePerInputFeature ==
    ShrinkDone =>
        LET l == layers[1]
        IN  /\ l.gamma.shape = <<l.n_classes, l.in_features>>
            /\ \A c \in 1..l.n_classes, i \in 1..l.in_features :
                  /\ RLe(RZero, l.gamma.v[<<c, i>>])
                  /\ RMul(l.gamma.v[<<c, i>>], l.gamma.v[<<c, i>>])
                        = RSum([o \in 1..l.out_features |->
                                   RMul(l.weight.v[<<c, o, i>>], l.weight.v[<<c, o, i>>])])
            /\ GateOf(l, l.in_features)

\* a shrink layer with more input than output features gated them unevenly
C5_Witness ==
    /\ ShrinkDone
    /\ layers[1].in_features > layers[1].out_features
    /\ \E ix \in Idx(layers[1].beta.shape) : RLt(layers[1].beta.v[ix], ROne)

\* C7 (as claimed): after a successful forward on a (batch, in) or (n_classes,
\* batch, in) input, concepts is the snapshot of that call: the input promoted to
\* 3-D when top is false, the reshaped (batch, n_classes) output when top is true.
C7_SnapshotBatchByClasses ==
    (Returned("ConceptAwareness") /\ CA_ValidInput(layers[1], res.x)) =>
        LET l == layers[1]
        IN  IF l.top
            THEN /\ l.concepts = res.value
                 /\ l.concepts.shape = <<Batch(res.x), l.n_classes>>
            ELSE /\ Rank(l.concepts) = 3
                 /\ l.concepts = (IF Rank(res.x) = 2 THEN Unsqueeze(res.x, 0) ELSE res.x)

\* C7 (amended): after a successful forward, whatever the calls before it,
\* concepts is the snapshot of that call: the input promoted to 3-D when top is
\* false; when top is true the output that forward returned, x.view(n_classes,
\* -1).t(), of shape (batch * out_features, n_classes) on a (batch, in) or
\* (n_classes, batch, in) input, that is (batch, n_classes) when out_features = 1.
C7_SnapshotOfLastCall ==
    Returned("ConceptAwareness") =>
        LET l == layers[1]
        IN  IF l.top
            THEN /\ l.concepts = res.value
                 /\ CA_ValidInput(l, res.x) =>
                       l.concepts.shape = <<Batch(res.x) * l.out_features, l.n_classes>>
            ELSE /\ Rank(l.concepts) = 3
                 /\ l.concepts.shape = (IF Rank(res.x) = 2 THEN <<1>> \o res.x.shape
                                        ELSE res.x.shape)
                 /\ \A ix \in Idx(l.concepts.shape) :
                       l.concepts.v[ix] = (IF Rank(res.x) = 2 THEN res.x.v[Tail(ix)]
                                           ELSE res.x.v[ix])

\* a second successful call on a top layer with two output features
C7_Witness ==
    /\ Returned("ConceptAwareness")
    /\ ncalls = 2
    /\ layers[1].top /\ layers[1].out_features = 2
    /\ layers[1].concepts.shape = <<2 * Batch(res.x), layers[1].n_classes>>

\* C10 (as claimed): a layer constructed with bias = False completes forward, in
\* shrink and in non-shrink mode, and returns input x weight^T with nothing added.
C10_NoBiasReturns ==
    (res.op = "ConceptAwareness" /\ layers[1].bias.isNone /\ CA_ValidInput(layers[1], res.x))
        => res.status = "return"

\* ---- Attention ------------------------------------------------------------

\* the most recent call reached line 138
AttnStored == res.op = "Attention" /\ log[1].trace = <<"softmax">>

\* what class c reads of x, y and the parameters (a size-1 class axis broadcasts)
Attn_X(x, c, b, i) ==
    IF Rank(x) = 2 THEN x.v[<<b, i>>]
    ELSE x.v[<<IF x.shape[1] = 1 THEN 1 ELSE c, b, i>>]

Attn_Y(y, c, b) == y.v[<<b, IF y.shape[2] = 1 THEN 1 ELSE c>>]

Attn_C(l, c) == IF l.n_classes = 1 THEN 1 ELSE c

\* the raw score of class c, sample b, feature i: key . query over d_key_query
Attn_RawScore(l, x, y, c, b, i) ==
    RSum([k \in 1..d_key_query |->
             RMul(RMul(Attn_X(x, c, b, i), l.w_key.v[<<Attn_C(l, c), 1, 1, k>>]),
                  RMul(Attn_Y(y, c, b), l.w_query.v[<<Attn_C(l, c), 1, k>>]))])

\* the raw scores of class c and feature i averaged over the batch
Attn_BatchMean(l, x, y, c, i) ==
    RDiv(RSum([b \in 1..Batch(x) |-> Attn_RawScore(l, x, y, c, b, i)]), RInt(Batch(x)))

\* sm is, class by class, the softmax across the features of the batch means
Attn_IsFeatureSoftmax(sm, l, x, y) ==
    /\ Rank(sm) = 3 /\ sm.shape[2] = 1 /\ sm.shape[3] = Features(x)
    /\ \A c \in 1..sm.shape[1] :
          LET f == Features(x)
              a == [i \in 1..f |-> Attn_BatchMean(l, x, y, c, i)]
              z == RSum([i \in 1..f |-> RExp(RSub(a[i], RMaxSeq(a)))])
          IN  /\ RSum([i \in 1..f |-> sm.v[<<c, 1, i>>]]) = ROne
              /\ \A i \in 1..f : RMul(sm.v[<<c, 1, i>>], z) = RExp(RSub(a[i], RMaxSeq(a)))

\* gate is sm over its per-class maximum: per class the largest entry across the
\* features is 1 and every entry is in (0, 1]
Attn_IsGate(gate, sm) ==
    /\ gate.shape = sm.shape
    /\ \A c \in 1..sm.shape[1] :
          LET row == [i \in 1..sm.shape[3] |-> sm.v[<<c, 1, i>>]]
          IN  /\ \A i \in 1..sm.shape[3] :
                    /\ RMul(gate.v[<<c, 1, i>>], RMaxSeq(row)) = row[i]
                    /\ RLt(RZero, gate.v[<<c, 1, i>>]) /\ RLe(gate.v[<<c, 1, i>>], ROne)
              /\ \E i \in 1..sm.shape[3] : gate.v[<<c, 1, i>>] = ROne

\* out is the projection of the values weighted by gate:
\* out[c, b, o] = sum_i x[c, b, i] * w_value[c] * gate[c, i] * weight[c, i, o] + bias[c, o]
Attn_IsWeightedBy(out, gate, l, x) ==
    \A c \in 1..out.shape[1], b \in 1..out.shape[2], o \in 1..out.shape[3] :
        out.v[<<c, b, o>>] =
            RAdd(RSum([i \in 1..Features(x) |->
                          RMul(RMul(RMul(Attn_X(x, c, b, i), l.w_value.v[<<Attn_C(l, c), 1, 1>>]),
                                    gate.v[<<c, 1, i>>]),
                               l.weight.v[<<Attn_C(l, c), 1, i, o>>])]),
                 l.bias.v[<<Attn_C(l, c), 1, o>>])

\* C6 (as claimed): the scores are softmax-normalized across the class axis, and
\* the rescaled scores have per-class maximum 1 and lie in (0, 1].
C6_SoftmaxAcrossClasses ==
    AttnStored =>
        LET sm == layers[1].attn_scores_softmax
        IN  /\ \A i \in 1..sm.shape[3] :
                  RSum([c \in 1..sm.shape[1] |-> sm.v[<<c, 1, i>>]]) = ROne
            /\ Attn_IsGate(Attn_rescale(sm), sm)

\* C6 (amended): the raw key-query scores are averaged over the BATCH axis and
\* softmax-normalized across the INPUT-FEATURE axis, separately for every class;
\* the rescaled scores that weight the values are the softmax scores over their
\* per-class maximum: for every class the largest across the input features is 1
\* and every one lies in (0, 1].
C6_SoftmaxAcrossFeatures ==
    AttnStored =>
        LET l == layers[1]
            sm == l.attn_scores_softmax
        IN  /\ Attn_IsFeatureSoftmax(sm, l, res.x, res.y)
            /\ Attn_IsGate(Attn_rescale(sm), sm)
            /\ (res.status = "return"
                  /\ res.value.shape = <<sm.shape[1], Batch(res.x), l.out_features>>)
                 => Attn_IsWeightedBy(res.value, Attn_rescale(sm), l, res.x)

\* a two-class layer returned on a batch of two with two features scored unevenly
C6_Witness ==
    /\ AttnStored /\ res.status = "return"
    /\ layers[1].n_classes = 2 /\ Batch(res.x) = 2 /\ Features(res.x) = 2
    /\ res.value.shape = <<2, 2, layers[1].out_features>>
    /\ \E ix \in Idx(layers[1].attn_scores_softmax.shape) :
          RLt(Attn_rescale(layers[1].attn_scores_softmax).v[ix], ROne)

====
